---- MODULE Spec2Model ----
(***************************************************************************)
(* State-machine model of src/src/App.jsx: the theme hook (useTheme) and   *)
(* its three holders (Navbar, Hero, Layout), the scroll direction hook,    *)
(* the Studio login / draft submission, and the Home and ProjectDetail     *)
(* data loading.  React state is per component instance; localStorage and  *)
(* document.documentElement are shared by the whole page.                   *)
(***************************************************************************)
EXTENDS Integers, Sequences, FiniteSets, TLC

\* ------------------------------------------------------------------------
\* Bounds of the model
\* ------------------------------------------------------------------------
MaxToggles == 4
MaxY == 2
MaxEvents == 3
MaxMounts == 2
MaxLogins == 2
MaxLen == 3
MaxCreates == 2
MaxFetches == 3

\* ------------------------------------------------------------------------
\* Values
\* ------------------------------------------------------------------------
\* localStorage.getItem returns null for a key that was never set
Null == "null"
\* a hook whose component is not mounted holds no state
Unmounted == "unmounted"
\* a style property / class that was never set
Unset == "unset"

Themes == {"light", "dark"}

\* THEME_COLORS, App.jsx lines 12-15
THEME_COLORS ==
  [ light |-> [bg |-> "#FFFFFF", text |-> "#0F172A", card |-> "#F8FAFC"],
    dark  |-> [bg |-> "#0D1117", text |-> "#E5E7EB", card |-> "#111827"] ]

VARIABLES
  \* ---- theme ----
  appMounted,     \* <Layout/> has been rendered and its effects have run
  prefersDark,    \* window.matchMedia('(prefers-color-scheme: dark)').matches
  themeEntry,     \* localStorage entry under 'theme' (Null when absent)
  navTheme,       \* theme state of the useTheme instance in Navbar
  heroTheme,      \* theme state of the useTheme instance in Hero
  layoutTheme,    \* theme state of the useTheme instance in Layout
  darkClass,      \* documentElement.classList contains 'dark'
  cssBg,          \* documentElement.style --bg
  cssText,        \* documentElement.style --text
  navOpen,        \* Navbar's mobile menu state `open`
  entry0,         \* history: the 'theme' entry before the application started
  themeLog,       \* history: <<Navbar theme, 'theme' entry>> after mount and after each toggle
  \* ---- scroll direction ----
  scrollPhase,    \* position of the Navbar's useScrollDirection instance
  scrollY,        \* window.scrollY
  dir,            \* state `dir` of useScrollDirection
  last,           \* last.current of useScrollDirection
  scrollLog,      \* history: one record per scroll event dispatched on window
  \* ---- Studio ----
  studioMounted,  \* the route /studio is showing a Studio instance
  studioGen,      \* which Studio instance it is (a remount makes a new one)
  token,          \* state `token` of the mounted Studio instance
  tokenEntry,     \* localStorage entry under 'token' (Null when absent)
  password,       \* state `password` of the mounted Studio instance
  form,           \* state `form` of the mounted Studio instance
  logins,         \* POST /auth/login requests in flight
  loginClicks,    \* history: clicks on the Login button
  loginPosts,     \* history: POST /auth/login requests issued
  loginDone,      \* history: the last login POST that completed, and how
  lastPost,       \* the last request issued by create(), << >> before the first
  createClicks,   \* history: clicks on the Create button
  createPosts,    \* history: requests issued by create()
  \* ---- Home ----
  homeMounted,    \* the route / is showing a Home instance
  homeGen,        \* which Home instance it is; also the number of mounts so far
  home,           \* state `home` of the mounted instance: << >> is null, <<p>> a payload
  homeFetches,    \* GET /home requests in flight
  homeGets,       \* history: GET /home requests issued
  \* ---- ProjectDetail ----
  pdMounted,      \* the route /projects/:slug is showing a ProjectDetail instance
  pdGen,          \* which ProjectDetail instance it is
  slug,           \* the last segment of the current path
  project,        \* state `project`: << >> is null, <<body>> a stored body
  tab,            \* state `tab`
  pdFetches,      \* GET /projects/slug/{slug} requests in flight
  pdGets,         \* history: GET /projects/slug/{slug} requests issued
  pdSucceeded,    \* history: slugs whose GET, issued by the mounted instance, succeeded
  pdDone          \* history: the last GET that completed, and how

themeVars == <<appMounted, prefersDark, themeEntry, navTheme, heroTheme, layoutTheme,
               darkClass, cssBg, cssText, navOpen, entry0, themeLog>>

scrollVars == <<scrollPhase, scrollY, dir, last, scrollLog>>

studioVars == <<studioMounted, studioGen, token, tokenEntry, password, form, logins,
                loginClicks, loginPosts, loginDone, lastPost, createClicks, createPosts>>

homeVars == <<homeMounted, homeGen, home, homeFetches, homeGets>>

pdVars == <<pdMounted, pdGen, slug, project, tab, pdFetches, pdGets, pdSucceeded, pdDone>>

vars == <<themeVars, scrollVars, studioVars, homeVars, pdVars>>

\* what the actions of one component leave alone
notTheme == <<scrollVars, studioVars, homeVars, pdVars>>
notScroll == <<themeVars, studioVars, homeVars, pdVars>>
notStudio == <<themeVars, scrollVars, homeVars, pdVars>>
notHome == <<themeVars, scrollVars, studioVars, pdVars>>
notProjectDetail == <<themeVars, scrollVars, studioVars, homeVars>>

\* ------------------------------------------------------------------------
\* useTheme, App.jsx lines 17-31
\* ------------------------------------------------------------------------
\* a useTheme that asks the ambient preference first
useTheme_initial_ambientFirst(stored, prefers) ==
  IF prefers THEN "dark"
  ELSE IF stored # Null /\ stored # "" THEN stored
  ELSE "light"

\* the lazy initial state of useState, lines 18-23
useTheme_initial(stored, prefers) ==
  IF stored # Null /\ stored # ""
    THEN stored
    ELSE IF prefers THEN "dark" ELSE "light"

\* the effect of lines 25-28, as the pair <<'dark' class present, 'theme' entry>>
useTheme_effect(theme) ==
  [cls |-> (theme = "dark"), entry |-> theme]

\* a toggle button that can only switch the dark theme on
Navbar_nextTheme_onlyDark(theme) ==
  "dark"

\* the value the toggle button passes to setTheme, line 86
Navbar_nextTheme(theme) ==
  IF theme = "dark" THEN "light" ELSE "dark"

\* the effect of Layout, lines 406-409, as the pair <<--bg, --text>>
Layout_effect(theme) ==
  [bg |-> THEME_COLORS[theme].bg, text |-> THEME_COLORS[theme].text]

ThemeInit ==
  /\ appMounted = FALSE
  /\ prefersDark \in BOOLEAN
  /\ themeEntry \in {Null} \cup Themes
  /\ navTheme = Unmounted
  /\ heroTheme = Unmounted
  /\ layoutTheme = Unmounted
  /\ darkClass = FALSE
  /\ cssBg = Unset
  /\ cssText = Unset
  /\ navOpen = FALSE
  /\ entry0 = themeEntry
  /\ themeLog = << >>

\* First render of <App/>: Layout and Navbar always mount; Hero mounts with
\* Home when the initial route is "/" (lines 413-417).  Every useTheme
\* instance reads the same entry; the effects run children first (Navbar,
\* Hero) and Layout last, so Layout's write is the one that stays.
App_mount(withHero) ==
  /\ ~appMounted
  /\ LET t == useTheme_initial(themeEntry, prefersDark)
         e == useTheme_effect(t)
         c == Layout_effect(t)
     IN /\ navTheme' = t
        /\ layoutTheme' = t
        /\ heroTheme' = IF withHero THEN t ELSE Unmounted
        /\ darkClass' = e.cls
        /\ themeEntry' = e.entry
        /\ cssBg' = c.bg
        /\ cssText' = c.text
        /\ themeLog' = << [theme |-> t, entry |-> e.entry] >>
  /\ appMounted' = TRUE
  /\ UNCHANGED <<prefersDark, navOpen, entry0>>
  /\ UNCHANGED notTheme

\* Click on the theme button of Navbar (line 86): setTheme on Navbar's own
\* instance, then that instance's effect (lines 25-28).  The instances of Hero
\* and Layout are separate useState cells and are not re-rendered.
Navbar_toggle ==
  /\ appMounted
  /\ Len(themeLog) <= MaxToggles
  /\ LET t == Navbar_nextTheme(navTheme)
         e == useTheme_effect(t)
     IN /\ navTheme' = t
        /\ darkClass' = e.cls
        /\ themeEntry' = e.entry
        /\ themeLog' = Append(themeLog, [theme |-> t, entry |-> e.entry])
  /\ UNCHANGED <<appMounted, prefersDark, heroTheme, layoutTheme, cssBg, cssText,
                 navOpen, entry0>>
  /\ UNCHANGED notTheme

\* Click on the menu button of Navbar (line 89)
Navbar_menu ==
  /\ appMounted
  /\ navOpen' = ~navOpen
  /\ UNCHANGED <<appMounted, prefersDark, themeEntry, navTheme, heroTheme, layoutTheme,
                 darkClass, cssBg, cssText, entry0, themeLog>>
  /\ UNCHANGED notTheme

\* Navigation to "/": Home mounts Hero (line 274), whose useTheme instance
\* initialises from the entry of that moment and runs its effect.
Hero_mount ==
  /\ appMounted
  /\ heroTheme = Unmounted
  /\ LET t == useTheme_initial(themeEntry, prefersDark)
         e == useTheme_effect(t)
     IN /\ heroTheme' = t
        /\ darkClass' = e.cls
        /\ themeEntry' = e.entry
  /\ UNCHANGED <<appMounted, prefersDark, navTheme, layoutTheme, cssBg, cssText,
                 navOpen, entry0, themeLog>>
  /\ UNCHANGED notTheme

\* Navigation away from "/": Hero unmounts with Home
Hero_unmount ==
  /\ appMounted
  /\ heroTheme # Unmounted
  /\ heroTheme' = Unmounted
  /\ UNCHANGED <<appMounted, prefersDark, themeEntry, navTheme, layoutTheme, darkClass,
                 cssBg, cssText, navOpen, entry0, themeLog>>
  /\ UNCHANGED notTheme

ThemeNext ==
  \/ \E withHero \in BOOLEAN : App_mount(withHero)
  \/ Navbar_toggle
  \/ Navbar_menu
  \/ Hero_mount
  \/ Hero_unmount

\* ------------------------------------------------------------------------
\* useScrollDirection, App.jsx lines 33-46
\* ------------------------------------------------------------------------
Offsets == 0..MaxY

\* an onScroll where a tie goes to down
onScroll_dir_tieDown(y, lastY) ==
  IF y >= lastY THEN "down" ELSE "up"

\* the direction onScroll passes to setDir, line 39
onScroll_dir(y, lastY) ==
  IF y > lastY THEN "down" ELSE "up"

\* whether the 'scroll' listener is attached to window in a phase:
\* added by the effect (line 42), removed by its cleanup (line 43)
listening(phase) ==
  phase = "listening"

ScrollInit ==
  /\ scrollPhase = "unmounted"
  /\ scrollY \in Offsets
  /\ dir = Unmounted
  /\ last = 0
  /\ scrollLog = << >>

\* Render of the hook (lines 34-35): dir = 'up', last.current = window.scrollY
useScrollDirection_render ==
  /\ scrollPhase = "unmounted"
  /\ scrollPhase' = "rendered"
  /\ dir' = "up"
  /\ last' = scrollY
  /\ UNCHANGED <<scrollY, scrollLog>>
  /\ UNCHANGED notScroll

\* The effect (line 42) attaches the listener
useScrollDirection_attach ==
  /\ scrollPhase = "rendered"
  /\ scrollPhase' = "listening"
  /\ UNCHANGED <<scrollY, dir, last, scrollLog>>
  /\ UNCHANGED notScroll

\* The cleanup of the effect (line 43) removes the listener
useScrollDirection_detach ==
  /\ scrollPhase = "listening"
  /\ scrollPhase' = "detached"
  /\ UNCHANGED <<scrollY, dir, last, scrollLog>>
  /\ UNCHANGED notScroll

\* A scroll event on window with the viewport at offset y: the listener, when
\* attached, runs onScroll (lines 37-41)
Window_scroll(y) ==
  /\ scrollPhase # "unmounted"
  /\ Len(scrollLog) < MaxEvents
  /\ scrollY' = y
  /\ IF listening(scrollPhase)
       THEN /\ dir' = onScroll_dir(y, last)
            /\ last' = y
       ELSE UNCHANGED <<dir, last>>
  /\ scrollLog' = Append(scrollLog,
        [phase |-> scrollPhase, prev |-> last, y |-> y, before |-> dir,
         dir |-> dir', last |-> last'])
  /\ UNCHANGED scrollPhase
  /\ UNCHANGED notScroll

ScrollNext ==
  \/ useScrollDirection_render
  \/ useScrollDirection_attach
  \/ useScrollDirection_detach
  \/ \E y \in Offsets : Window_scroll(y)

\* ------------------------------------------------------------------------
\* Studio, App.jsx lines 285-343: login
\* ------------------------------------------------------------------------
\* a field that a JSON body does not have reads as undefined
Undefined == "<undefined>"

Tokens == {"abc", "xyz"}
Passwords == {"", "hunter2"}

\* JavaScript truthiness of a string, null or undefined (lines 287, 315, 321)
Truthy(v) ==
  v # "" /\ v # Null /\ v # Undefined

\* localStorage.setItem stores String(value), line 294
JS_String(v) ==
  IF v = Undefined THEN "undefined" ELSE v

\* the initial `token`, line 287: localStorage.getItem('token') || ''
Studio_initialToken(entry) ==
  IF Truthy(entry) THEN entry ELSE ""

\* the initial `form`, line 298
Studio_initialForm ==
  [type |-> "project", title |-> "", slug |-> "", summary |-> "", tech |-> << >>]

\* How a POST /auth/login can complete: fetch rejects; a response with
\* res.ok false; a response with res.ok whose body is no JSON; a response with
\* res.ok and a JSON body, with or without the access_token field.
LoginResponses ==
  { [kind |-> k, access_token |-> Undefined] : k \in {"rejected", "not_ok", "ok_no_json"} }
    \cup { [kind |-> "ok", access_token |-> a] : a \in Tokens \cup {Undefined} }

\* a login() that does not test res.ok
login_stores_anyStatus(resp) ==
  resp.kind \in {"ok", "not_ok"}

\* whether login() reaches lines 293-294 for a response: `await fetch` and
\* `await res.json()` throw on rejection, line 292 tests res.ok
login_stores(resp) ==
  resp.kind = "ok"

NoLogin == [kind |-> "none", access_token |-> Undefined, id |-> 0]

StudioInit ==
  /\ studioMounted = FALSE
  /\ studioGen = 0
  /\ token = Unmounted
  /\ tokenEntry \in {Null} \cup Tokens
  /\ password = Unmounted
  /\ form = Studio_initialForm
  /\ logins = {}
  /\ loginClicks = 0
  /\ loginPosts = 0
  /\ loginDone = NoLogin
  /\ lastPost = << >>
  /\ createClicks = 0
  /\ createPosts = 0

\* Navigation to /studio mounts a new Studio instance (lines 286-298)
Studio_mount ==
  /\ ~studioMounted
  /\ studioGen < MaxMounts
  /\ studioMounted' = TRUE
  /\ studioGen' = studioGen + 1
  /\ token' = Studio_initialToken(tokenEntry)
  /\ password' = ""
  /\ form' = Studio_initialForm
  /\ UNCHANGED <<tokenEntry, logins, loginClicks, loginPosts, loginDone, lastPost,
                 createClicks, createPosts>>
  /\ UNCHANGED notStudio

\* Navigation away from /studio: the instance and its state are dropped;
\* nothing aborts the requests it has in flight
Studio_unmount ==
  /\ studioMounted
  /\ studioMounted' = FALSE
  /\ token' = Unmounted
  /\ password' = Unmounted
  /\ form' = Studio_initialForm
  /\ UNCHANGED <<studioGen, tokenEntry, logins, loginClicks, loginPosts, loginDone,
                 lastPost, createClicks, createPosts>>
  /\ UNCHANGED notStudio

\* Typing in the password input, line 317 (rendered while !token)
Studio_setPassword(p) ==
  /\ studioMounted
  /\ ~Truthy(token)
  /\ password' = p
  /\ UNCHANGED <<studioMounted, studioGen, token, tokenEntry, form, logins, loginClicks,
                 loginPosts, loginDone, lastPost, createClicks, createPosts>>
  /\ UNCHANGED notStudio

\* Click on Login, line 318 (rendered while !token): login() up to its first
\* await, line 291, issues the POST with body {password}
Studio_login ==
  /\ studioMounted
  /\ ~Truthy(token)
  /\ loginClicks < MaxLogins
  /\ loginClicks' = loginClicks + 1
  /\ loginPosts' = loginPosts + 1
  /\ logins' = logins \cup
       { [id |-> loginPosts + 1, gen |-> studioGen, body |-> [password |-> password]] }
  /\ UNCHANGED <<studioMounted, studioGen, token, tokenEntry, password, form, loginDone,
                 lastPost, createClicks, createPosts>>
  /\ UNCHANGED notStudio

\* A login POST completes and login() resumes, lines 292-295.  setToken belongs
\* to the instance that issued the request: React drops it when that instance
\* is no longer mounted.  localStorage is written in either case.
Studio_loginResume(req, resp) ==
  /\ req \in logins
  /\ logins' = logins \ {req}
  /\ loginDone' = [kind |-> resp.kind, access_token |-> resp.access_token, id |-> req.id]
  /\ IF login_stores(resp)
       THEN /\ token' = IF studioMounted /\ req.gen = studioGen
                          THEN resp.access_token
                          ELSE token
            /\ tokenEntry' = JS_String(resp.access_token)
       ELSE UNCHANGED <<token, tokenEntry>>
  /\ UNCHANGED <<studioMounted, studioGen, password, form, loginClicks, loginPosts,
                 lastPost, createClicks, createPosts>>
  /\ UNCHANGED notStudio

\* ------------------------------------------------------------------------
\* Studio, App.jsx lines 298-310: the draft and create()
\* ------------------------------------------------------------------------
\* The free-text field form.tech is a sequence of characters
Chars == {"a", "b", ",", " "}

\* String.prototype.split(','), line 302: the pieces between the commas, empty
\* pieces included
RECURSIVE split(_)
split(str) ==
  IF \A i \in 1..Len(str) : str[i] # ","
    THEN << str >>
    ELSE LET c == CHOOSE i \in 1..Len(str) :
                    str[i] = "," /\ \A j \in 1..(i - 1) : str[j] # ","
         IN << SubSeq(str, 1, c - 1) >> \o split(SubSeq(str, c + 1, Len(str)))

\* a trim that strips the left end only
RECURSIVE trim_startOnly(_)
trim_startOnly(str) ==
  IF str = << >> THEN str
  ELSE IF Head(str) = " " THEN trim_startOnly(Tail(str))
  ELSE str

\* String.prototype.trim(), line 302: without the white space at both ends
RECURSIVE trim(_)
trim(str) ==
  IF str = << >> THEN str
  ELSE IF Head(str) = " " THEN trim(Tail(str))
  ELSE IF str[Len(str)] = " " THEN trim(SubSeq(str, 1, Len(str) - 1))
  ELSE str

\* form.tech.split(',').map(s=>s.trim()), lines 302 and 304
splitTags(str) ==
  LET pieces == split(str)
  IN [i \in 1..Len(pieces) |-> trim(pieces[i])]

\* the object create() builds for the draft, lines 301-307
create_body(f) ==
  IF f.type = "project"
    THEN [title |-> f.title, slug |-> f.slug, summary |-> f.summary,
          tech |-> splitTags(f.tech)]
  ELSE IF f.type = "blog"
    THEN [title |-> f.title, slug |-> f.slug, excerpt |-> f.summary,
          tags |-> splitTags(f.tech), read_time |-> 4]
  ELSE [name |-> f.title, category |-> f.slug, level |-> f.summary]

\* the endpoint create() posts to, line 308
create_endpoint(f) ==
  IF f.type = "project" THEN "/projects"
  ELSE IF f.type = "blog" THEN "/blog"
  ELSE "/tech"

\* the Authorization header of create(), line 309
create_authorization(tok) ==
  "Bearer " \o tok

\* the updater an input's onChange passes to setForm, lines 324-332
setForm(f, field, value) ==
  [f EXCEPT ![field] = value]

\* Click on Create, line 333 (rendered while token): create() up to its await
Studio_create ==
  /\ studioMounted
  /\ Truthy(token)
  /\ createClicks < MaxCreates
  /\ createClicks' = createClicks + 1
  /\ createPosts' = createPosts + 1
  /\ lastPost' = << [method |-> "POST", endpoint |-> create_endpoint(form),
                     authorization |-> create_authorization(token),
                     body |-> create_body(form)] >>
  /\ UNCHANGED <<studioMounted, studioGen, token, tokenEntry, password, form, logins,
                 loginClicks, loginPosts, loginDone>>
  /\ UNCHANGED notStudio

\* the values the model types into the inputs of the draft
Kinds == {"project", "blog", "tech"}
Titles == {"", "Foo"}
Slugs == {"", "foo"}
Summaries == {"", "bar"}
RECURSIVE Strings(_)
Strings(n) ==
  IF n = 0 THEN { << >> }
  ELSE LET shorter == Strings(n - 1)
       IN shorter \cup { Append(t, c) : t \in shorter, c \in Chars }

\* A Studio that found a token under 'token' when it mounted, with a draft
\* typed into its form through the onChange handlers
DraftInit ==
  /\ studioMounted = TRUE
  /\ studioGen = 1
  /\ tokenEntry \in Tokens
  /\ token = Studio_initialToken(tokenEntry)
  /\ password = ""
  /\ \E k \in Kinds, t \in Titles, sl \in Slugs, su \in Summaries, te \in Strings(MaxLen) :
       form = setForm(setForm(setForm(setForm(setForm(Studio_initialForm,
                "type", k), "title", t), "slug", sl), "summary", su), "tech", te)
  /\ logins = {}
  /\ loginClicks = 0
  /\ loginPosts = 0
  /\ loginDone = NoLogin
  /\ lastPost = << >>
  /\ createClicks = 0
  /\ createPosts = 0

\* Change of the kind select, line 324
Studio_setType(k) ==
  /\ studioMounted
  /\ Truthy(token)
  /\ form' = setForm(form, "type", k)
  /\ UNCHANGED <<studioMounted, studioGen, token, tokenEntry, password, logins,
                 loginClicks, loginPosts, loginDone, lastPost, createClicks, createPosts>>
  /\ UNCHANGED notStudio

DraftNext ==
  \/ Studio_create
  \/ \E k \in Kinds : Studio_setType(k)

StudioNext ==
  \/ Studio_mount
  \/ Studio_unmount
  \/ \E p \in Passwords : Studio_setPassword(p)
  \/ Studio_login
  \/ \E req \in logins, resp \in LoginResponses : Studio_loginResume(req, resp)

\* ------------------------------------------------------------------------
\* Home and its sections, App.jsx lines 181-200, 236-255, 265-283
\* ------------------------------------------------------------------------
\* An optional value (a field a JSON body may lack, a prop that may be
\* undefined, a state that may be null) is << >> when absent and <<v>> when v
None == << >>
Some(v) == << v >>

\* the built-in samples, lines 182, 195-200, 237-241
TECH_SAMPLE ==
  << "TypeScript", "React", "Node", "FastAPI", "MongoDB", "PostgreSQL", "Docker",
     "Kubernetes", "AWS", "Vite", "Tailwind", "Framer Motion" >>
PROJECTS_SAMPLE ==
  << [title |-> "Realtime Collab"], [title |-> "Design System"],
     [title |-> "Analytics ETL"], [title |-> "Infra as Code"] >>
POSTS_SAMPLE ==
  << [title |-> "Edge rendering mental models", read_time |-> 6],
     [title |-> "Designing with a 12-col grid", read_time |-> 4],
     [title |-> "DX as product", read_time |-> 5] >>

\* a Projects that renders what it is given, without the sample
Projects_data_noSample(items) ==
  IF items = None THEN << >> ELSE items[1]

\* TechStack, lines 181-182: the prop defaults to [], an empty list gives the sample
TechStack_items(tech) ==
  LET given == IF tech = None THEN << >> ELSE tech[1]
  IN IF Len(given) # 0 THEN given ELSE TECH_SAMPLE

\* Projects, lines 194-200
Projects_data(items) ==
  LET given == IF items = None THEN << >> ELSE items[1]
  IN IF Len(given) # 0 THEN given ELSE PROJECTS_SAMPLE

\* Blog, lines 236-241
Blog_data(posts) ==
  LET given == IF posts = None THEN << >> ELSE posts[1]
  IN IF Len(given) # 0 THEN given ELSE POSTS_SAMPLE

\* the props Home passes down, lines 276, 277, 279
Home_techProp(h) ==
  IF h = None \/ h[1].tech = None
    THEN None
    ELSE Some([i \in 1..Len(h[1].tech[1]) |-> h[1].tech[1][i].name])
Home_projectsProp(h) ==
  IF h = None THEN None ELSE h[1].projects
Home_postsProp(h) ==
  IF h = None THEN None ELSE h[1].posts

\* the bodies GET /home answers with in the model: each field absent, empty or filled
TechLists == { << >>, << [name |-> "Go"] >>, << [name |-> "Go"], [name |-> "Rust"] >> }
ProjectLists == { << >>, << [title |-> "Compiler"] >> }
PostLists == { << >>, << [title |-> "Notes", read_time |-> 7] >> }
HomePayloads ==
  [ tech : {None} \cup { Some(l) : l \in TechLists },
    projects : {None} \cup { Some(l) : l \in ProjectLists },
    posts : {None} \cup { Some(l) : l \in PostLists } ]

\* How GET /home can complete: fetch rejects; r.json() rejects; r.json() gives
\* null; r.json() gives an object (line 270 does not look at the status)
HomeResponses ==
  { [kind |-> k, body |-> None] : k \in {"rejected", "no_json", "json"} }
    \cup { [kind |-> "json", body |-> Some(b)] : b \in HomePayloads }

HomeInit ==
  /\ homeMounted = FALSE
  /\ homeGen = 0
  /\ home = None
  /\ homeFetches = {}
  /\ homeGets = 0

\* Navigation to "/": a new Home instance, whose effect (lines 268-271) issues the GET
Home_mount ==
  /\ ~homeMounted
  /\ homeGen < MaxMounts
  /\ homeMounted' = TRUE
  /\ homeGen' = homeGen + 1
  /\ home' = None
  /\ homeGets' = homeGets + 1
  /\ homeFetches' = homeFetches \cup { [id |-> homeGets + 1, gen |-> homeGen + 1] }
  /\ UNCHANGED notHome

\* Navigation away from "/": nothing aborts the request in flight
Home_unmount ==
  /\ homeMounted
  /\ homeMounted' = FALSE
  /\ home' = None
  /\ UNCHANGED <<homeGen, homeFetches, homeGets>>
  /\ UNCHANGED notHome

\* GET /home completes, line 270: setHome belongs to the instance that issued it
Home_fetchDone(req, resp) ==
  /\ req \in homeFetches
  /\ homeFetches' = homeFetches \ {req}
  /\ home' = IF resp.kind = "json" /\ homeMounted /\ req.gen = homeGen
               THEN resp.body
               ELSE home
  /\ UNCHANGED <<homeMounted, homeGen, homeGets>>
  /\ UNCHANGED notHome

HomeNext ==
  \/ Home_mount
  \/ Home_unmount
  \/ \E req \in homeFetches, resp \in HomeResponses : Home_fetchDone(req, resp)

\* ------------------------------------------------------------------------
\* ProjectDetail, App.jsx lines 345-402
\* ------------------------------------------------------------------------
SlugValues == {"alpha", "beta"}
Tabs == {"overview", "process", "demo", "learnings"}

\* How GET /projects/slug/{s} can complete: fetch rejects; r.json() rejects;
\* r.json() gives the project, under a success status; r.json() gives an error
\* body, under a non-success status (line 351 does not look at the status)
ProjectResponses(s) ==
  { [kind |-> k, ok |-> FALSE, body |-> [is |-> "nothing", slug |-> s]] :
      k \in {"rejected", "no_json"} }
    \cup { [kind |-> "json", ok |-> TRUE, body |-> [is |-> "project", slug |-> s]],
           [kind |-> "json", ok |-> FALSE, body |-> [is |-> "error", slug |-> s]] }

\* what is rendered under the tab bar, lines 360-399
ProjectDetail_panel(t, p) ==
  IF t = "overview"
    THEN IF p # None THEN "project" ELSE "blank"
    ELSE t

NoFetch == [id |-> 0, gen |-> 0, slug |-> Unmounted, kind |-> "none", ok |-> FALSE]

ProjectDetailInit ==
  /\ pdDone = NoFetch
  /\ pdMounted = FALSE
  /\ pdGen = 0
  /\ slug = Unmounted
  /\ project = None
  /\ tab = Unmounted
  /\ pdFetches = {}
  /\ pdGets = 0
  /\ pdSucceeded = {}

\* Navigation to /projects/s: a new instance (lines 346-350), whose effect
\* (line 351) issues the GET
ProjectDetail_mount(s) ==
  /\ ~pdMounted
  /\ pdGen < MaxMounts
  /\ pdGets < MaxFetches
  /\ pdMounted' = TRUE
  /\ pdGen' = pdGen + 1
  /\ slug' = s
  /\ project' = None
  /\ tab' = "overview"
  /\ pdGets' = pdGets + 1
  /\ pdFetches' = pdFetches \cup { [id |-> pdGets + 1, gen |-> pdGen + 1, slug |-> s] }
  /\ pdSucceeded' = {}
  /\ UNCHANGED pdDone
  /\ UNCHANGED notProjectDetail

\* Navigation away from the route: nothing aborts the requests in flight
ProjectDetail_unmount ==
  /\ pdMounted
  /\ pdMounted' = FALSE
  /\ slug' = Unmounted
  /\ project' = None
  /\ tab' = Unmounted
  /\ pdSucceeded' = {}
  /\ UNCHANGED <<pdGen, pdFetches, pdGets, pdDone>>
  /\ UNCHANGED notProjectDetail

\* The path changes to /projects/s while the instance stays mounted: the
\* effect runs again (its dependency is slug), `project` and `tab` are kept
ProjectDetail_slugChange(s) ==
  /\ pdMounted
  /\ s # slug
  /\ pdGets < MaxFetches
  /\ slug' = s
  /\ pdGets' = pdGets + 1
  /\ pdFetches' = pdFetches \cup { [id |-> pdGets + 1, gen |-> pdGen, slug |-> s] }
  /\ UNCHANGED <<pdMounted, pdGen, project, tab, pdSucceeded, pdDone>>
  /\ UNCHANGED notProjectDetail

\* Click on a tab button, line 357
ProjectDetail_setTab(t) ==
  /\ pdMounted
  /\ tab' = t
  /\ UNCHANGED <<pdMounted, pdGen, slug, project, pdFetches, pdGets, pdSucceeded, pdDone>>
  /\ UNCHANGED notProjectDetail

\* a completion handler that drops the answer to a slug that is no longer current
ProjectDetail_fetchDone_currentSlugOnly(req, resp) ==
  /\ req \in pdFetches
  /\ pdFetches' = pdFetches \ {req}
  /\ pdDone' = [id |-> req.id, gen |-> req.gen, slug |-> req.slug,
                kind |-> resp.kind, ok |-> resp.ok]
  /\ IF pdMounted /\ req.gen = pdGen /\ req.slug = slug
       THEN /\ project' = IF resp.kind = "json" THEN Some(resp.body) ELSE project
            /\ pdSucceeded' = IF resp.kind = "json" /\ resp.ok
                                THEN pdSucceeded \cup {req.slug}
                                ELSE pdSucceeded
       ELSE UNCHANGED <<project, pdSucceeded>>
  /\ UNCHANGED <<pdMounted, pdGen, slug, tab, pdGets>>
  /\ UNCHANGED notProjectDetail

\* A GET completes, line 351: setProject belongs to the instance that issued
\* it; nothing compares the answered slug with the current one
ProjectDetail_fetchDone(req, resp) ==
  /\ req \in pdFetches
  /\ pdFetches' = pdFetches \ {req}
  /\ pdDone' = [id |-> req.id, gen |-> req.gen, slug |-> req.slug,
                kind |-> resp.kind, ok |-> resp.ok]
  /\ IF pdMounted /\ req.gen = pdGen
       THEN /\ project' = IF resp.kind = "json" THEN Some(resp.body) ELSE project
            /\ pdSucceeded' = IF resp.kind = "json" /\ resp.ok
                                THEN pdSucceeded \cup {req.slug}
                                ELSE pdSucceeded
       ELSE UNCHANGED <<project, pdSucceeded>>
  /\ UNCHANGED <<pdMounted, pdGen, slug, tab, pdGets>>
  /\ UNCHANGED notProjectDetail

ProjectDetailNext ==
  \/ \E s \in SlugValues : ProjectDetail_mount(s)
  \/ ProjectDetail_unmount
  \/ \E s \in SlugValues : ProjectDetail_slugChange(s)
  \/ \E t \in Tabs : ProjectDetail_setTab(t)
  \/ \E req \in pdFetches : \E resp \in ProjectResponses(req.slug) :
       ProjectDetail_fetchDone(req, resp)

\* ------------------------------------------------------------------------
\* Specifications: one per component, the other components at rest
\* ------------------------------------------------------------------------
ThemeIdle == ThemeInit /\ themeEntry = Null /\ prefersDark = FALSE
ScrollIdle == ScrollInit /\ scrollY = 0
StudioIdle == StudioInit /\ tokenEntry = Null

InitTheme == ThemeInit /\ ScrollIdle /\ StudioIdle /\ HomeInit /\ ProjectDetailInit
InitScroll == ScrollInit /\ ThemeIdle /\ StudioIdle /\ HomeInit /\ ProjectDetailInit
InitStudio == StudioInit /\ ThemeIdle /\ ScrollIdle /\ HomeInit /\ ProjectDetailInit
InitDraft == DraftInit /\ ThemeIdle /\ ScrollIdle /\ HomeInit /\ ProjectDetailInit
InitHome == HomeInit /\ ThemeIdle /\ ScrollIdle /\ StudioIdle /\ ProjectDetailInit
InitProjectDetail == ProjectDetailInit /\ ThemeIdle /\ ScrollIdle /\ StudioIdle /\ HomeInit

SpecTheme == InitTheme /\ [][ThemeNext]_vars

SpecScroll == InitScroll /\ [][ScrollNext]_vars

SpecStudio == InitStudio /\ [][StudioNext]_vars

SpecDraft == InitDraft /\ [][DraftNext]_vars

SpecHome == InitHome /\ [][HomeNext]_vars

SpecProjectDetail == InitProjectDetail /\ [][ProjectDetailNext]_vars

\* The whole page
Init ==
  ThemeInit /\ ScrollInit /\ StudioInit /\ HomeInit /\ ProjectDetailInit

Next ==
  \/ ThemeNext
  \/ ScrollNext
  \/ StudioNext
  \/ DraftNext
  \/ HomeNext
  \/ ProjectDetailNext

Spec == Init /\ [][Next]_vars

\* ------------------------------------------------------------------------
\* Properties
\* ------------------------------------------------------------------------

\* C1: once the effects have run, every mounted holder of theme state (Navbar,
\* Hero, Layout) holds the value stored under 'theme', and the 'dark' class and
\* the --bg / --text variables of the document root correspond to that value.
C1_ThemeConsistent ==
  appMounted =>
    /\ navTheme = themeEntry
    /\ layoutTheme = themeEntry
    /\ (heroTheme # Unmounted => heroTheme = themeEntry)
    /\ darkClass = (themeEntry = "dark")
    /\ themeEntry \in Themes
    /\ cssBg = THEME_COLORS[themeEntry].bg
    /\ cssText = THEME_COLORS[themeEntry].text

\* C2: whenever a Studio is mounted, it holds a token in memory if and only if
\* a token is stored under 'token', and then the two are equal.
C2_TokenConsistent ==
  studioMounted =>
    /\ Truthy(token) <=> tokenEntry # Null
    /\ Truthy(token) => token = tokenEntry

\* C3: when a login POST completes with a success status and a body with
\* access token t, the mounted Studio holds t in memory and t is stored under
\* 'token'.
C3_LoginSuccess ==
  [][ (loginDone' # loginDone /\ loginDone'.kind = "ok"
         /\ loginDone'.access_token \in Tokens)
      => /\ tokenEntry' = loginDone'.access_token
         /\ studioMounted => token' = loginDone'.access_token ]_vars

\* C4: when a login POST fails (the request is rejected, or the response has a
\* non-success status), the in-memory token and the 'token' entry stay as they
\* were and no request is issued: one POST per click on Login, no retry.
C4_LoginFailure ==
  [][ /\ (loginDone' # loginDone /\ loginDone'.kind \in {"rejected", "not_ok"})
         => /\ token' = token
            /\ tokenEntry' = tokenEntry
            /\ loginPosts' = loginPosts
            /\ logins' \subseteq logins
      /\ loginPosts' = loginPosts + (loginClicks' - loginClicks)
      /\ Cardinality(logins') <= Cardinality(logins) + (loginClicks' - loginClicks) ]_vars

C4_Witness ==
  /\ studioMounted
  /\ loginDone.kind = "not_ok"
  /\ loginClicks = 1
  /\ loginPosts = 1
  /\ logins = {}
  /\ token = ""
  /\ tokenEntry = Null

\* C5: the theme every holder starts with is the value persisted under 'theme'
\* when there is one, whatever the ambient preference; otherwise dark when the
\* environment prefers dark and light when it does not; always light or dark.
C5_InitialTheme ==
  appMounted =>
    LET initial == { layoutTheme, themeLog[1].theme }
    IN /\ initial \subseteq Themes
       /\ entry0 # Null => initial = { entry0 }
       /\ (entry0 = Null /\ prefersDark) => initial = { "dark" }
       /\ (entry0 = Null /\ ~prefersDark) => initial = { "light" }
       /\ themeLog[1].entry \in initial

C5_Witness ==
  /\ appMounted
  /\ entry0 = "light"
  /\ prefersDark
  /\ layoutTheme = "light"
  /\ themeLog[1].theme = "light"

\* C6 as claimed: after two toggles the theme is the one the application
\* started with and the entry under 'theme' is the one it started with, present
\* or absent.
C6_ToggleTwiceRestoresStart ==
  Len(themeLog) = 3 =>
    /\ navTheme = themeLog[1].theme
    /\ themeEntry = entry0

\* C6 as amended: two toggles restore the theme and the entry under 'theme'
\* that were in place before the first of them; the entry is the one written
\* on mount, so it equals the entry the application started with only when
\* there was one.
C6_ToggleInvolution ==
  /\ \A i \in 1..Len(themeLog) :
       i + 2 <= Len(themeLog) =>
         /\ themeLog[i + 2].theme = themeLog[i].theme
         /\ themeLog[i + 2].entry = themeLog[i].entry
  /\ Len(themeLog) = 3 =>
       /\ navTheme = themeLog[1].theme
       /\ themeEntry = themeLog[1].entry
       /\ entry0 # Null => themeEntry = entry0

C6_Witness ==
  /\ Len(themeLog) = 3
  /\ entry0 = Null
  /\ themeEntry = "light"
  /\ navTheme = "light"

\* the comma-separated pieces of a string by position: piece k lies between
\* the (k-1)-th and the k-th comma
CommasOf(str) == { i \in 1..Len(str) : str[i] = "," }
PieceOf(str, k) ==
  LET before(i) == Cardinality({ j \in CommasOf(str) : j < i })
      lo == IF k = 1 THEN 1
            ELSE 1 + CHOOSE i \in CommasOf(str) : before(i) = k - 2
      hi == IF k = Cardinality(CommasOf(str)) + 1 THEN Len(str)
            ELSE (CHOOSE i \in CommasOf(str) : before(i) = k - 1) - 1
  IN SubSeq(str, lo, hi)
Stripped(str) ==
  LET solid == { i \in 1..Len(str) : str[i] # " " }
  IN IF solid = {} THEN << >>
     ELSE SubSeq(str, CHOOSE i \in solid : \A j \in solid : i <= j,
                      CHOOSE i \in solid : \A j \in solid : i >= j)
TagsOf(str) ==
  [k \in 1..(Cardinality(CommasOf(str)) + 1) |-> Stripped(PieceOf(str, k))]
ReactTsNode ==
  << "r", "e", "a", "c", "t", ",", " ", "t", "s", " ", ",", " ", " ", "n", "o", "d", "e" >>

\* C7: a click on Create issues one POST with 'Bearer <token>'; project goes to
\* /projects with {title, slug, summary, tech}, blog to /blog with {title, slug,
\* excerpt, tags, read_time 4}, tech to /tech with {name, category, level};
\* tech / tags are the comma-separated pieces of the free text, trimmed, in
\* order, empty ones kept; the draft and the token stay as they were.
C7_DraftMapping ==
  [][ createClicks' # createClicks =>
        /\ createPosts' = createPosts + 1
        /\ Len(lastPost') = 1
        /\ form' = form
        /\ token' = token
        /\ tokenEntry' = tokenEntry
        /\ LET r == lastPost'[1]
               pieces == TagsOf(form.tech)
           IN /\ r.method = "POST"
              /\ token = "abc" => r.authorization = "Bearer abc"
              /\ token = "xyz" => r.authorization = "Bearer xyz"
              /\ form.type = "project" =>
                   /\ r.endpoint = "/projects"
                   /\ r.body = [title |-> form.title, slug |-> form.slug,
                                summary |-> form.summary, tech |-> pieces]
              /\ form.type = "blog" =>
                   /\ r.endpoint = "/blog"
                   /\ r.body = [title |-> form.title, slug |-> form.slug,
                                excerpt |-> form.summary, tags |-> pieces,
                                read_time |-> 4]
              /\ form.type = "tech" =>
                   /\ r.endpoint = "/tech"
                   /\ r.body = [name |-> form.title, category |-> form.slug,
                                level |-> form.summary]
        /\ splitTags(ReactTsNode)
             = << <<"r", "e", "a", "c", "t">>, <<"t", "s">>, <<"n", "o", "d", "e">> >> ]_vars

C7_Witness ==
  /\ createPosts = 1
  /\ form.type = "blog"
  /\ form.title = "Foo"
  /\ form.tech = << " ", ",", "a" >>
  /\ lastPost[1].endpoint = "/blog"
  /\ lastPost[1].body.tags = << << >>, << "a" >> >>
  /\ lastPost[1].authorization = "Bearer xyz"

\* C8: a scroll event heard by the listener reports down when the new offset
\* is greater than the recorded one and up otherwise, and records the new
\* offset; an event while no listener is attached (before the effect ran, after
\* its cleanup) changes neither.
C8_ScrollDirection ==
  /\ \A i \in 1..Len(scrollLog) :
       LET e == scrollLog[i]
       IN /\ e.phase = "listening" =>
               /\ e.y > e.prev => e.dir = "down"
               /\ e.y <= e.prev => e.dir = "up"
               /\ e.last = e.y
          /\ e.phase \in {"rendered", "detached"} =>
               /\ e.dir = e.before
               /\ e.last = e.prev
          /\ i > 1 =>
               /\ e.prev = scrollLog[i - 1].last
               /\ e.before = scrollLog[i - 1].dir
          /\ (i > 1 /\ e.phase = "listening" /\ scrollLog[i - 1].phase = "listening") =>
               /\ e.y > scrollLog[i - 1].y => e.dir = "down"
               /\ e.y <= scrollLog[i - 1].y => e.dir = "up"
  /\ scrollLog # << >> =>
       /\ dir = scrollLog[Len(scrollLog)].dir
       /\ last = scrollLog[Len(scrollLog)].last

C8_Witness ==
  \E i, j \in 1..Len(scrollLog) :
    /\ i < j
    /\ scrollLog[i].phase = "listening"
    /\ scrollLog[i].y = scrollLog[i].prev
    /\ scrollLog[i].dir = "up"
    /\ scrollLog[j].phase = "detached"
    /\ scrollLog[j].y > scrollLog[j].prev
    /\ dir = "up"

\* the names of the tech items of a fetched list
NamesOf(l) == [i \in 1..Len(l) |-> l[i].name]

\* C9 as claimed: Home issues one GET /home per mount, and each of TechStack,
\* Projects and Blog renders its sample (12, 4 and 3 entries) when its field is
\* absent or nothing was fetched, and the fetched list whenever the field is there.
C9_SampleOnlyWhenAbsent ==
  homeMounted =>
    /\ homeGets = homeGen
    /\ TechStack_items(Home_techProp(home)) =
         IF home = None \/ home[1].tech = None
           THEN TECH_SAMPLE ELSE NamesOf(home[1].tech[1])
    /\ Projects_data(Home_projectsProp(home)) =
         IF home = None \/ home[1].projects = None
           THEN PROJECTS_SAMPLE ELSE home[1].projects[1]
    /\ Blog_data(Home_postsProp(home)) =
         IF home = None \/ home[1].posts = None
           THEN POSTS_SAMPLE ELSE home[1].posts[1]

\* C9 as amended: Home issues one GET /home per mount, and each of TechStack,
\* Projects and Blog renders its sample (12, 4 and 3 entries) when nothing was
\* fetched or its field is absent or an empty list, and the fetched list
\* otherwise, each field on its own.
C9_SampleWhenAbsentOrEmpty ==
  /\ Len(TECH_SAMPLE) = 12 /\ Len(PROJECTS_SAMPLE) = 4 /\ Len(POSTS_SAMPLE) = 3
  /\ homeGets = homeGen
  /\ Cardinality(homeFetches) <= homeGets
  /\ homeMounted =>
       /\ TechStack_items(Home_techProp(home)) =
            IF home = None \/ home[1].tech \in {None, Some(<< >>)}
              THEN TECH_SAMPLE ELSE NamesOf(home[1].tech[1])
       /\ Projects_data(Home_projectsProp(home)) =
            IF home = None \/ home[1].projects \in {None, Some(<< >>)}
              THEN PROJECTS_SAMPLE ELSE home[1].projects[1]
       /\ Blog_data(Home_postsProp(home)) =
            IF home = None \/ home[1].posts \in {None, Some(<< >>)}
              THEN POSTS_SAMPLE ELSE home[1].posts[1]

C9_Witness ==
  /\ homeMounted
  /\ homeGets = 1
  /\ homeFetches = {}
  /\ home # None
  /\ home[1].tech = None
  /\ home[1].projects = Some(<< [title |-> "Compiler"] >>)
  /\ home[1].posts = Some(<< >>)
  /\ Projects_data(Home_projectsProp(home)) = << [title |-> "Compiler"] >>
  /\ Blog_data(Home_postsProp(home)) = POSTS_SAMPLE

\* C10: the project state is absent until the GET for the slug succeeds, a
\* fetch that fails leaves it absent, the overview tab shows project content
\* exactly while a project is stored, and the other tabs show their own content.
C10_ProjectOnlyFromSuccess ==
  pdMounted =>
    /\ project # None => slug \in pdSucceeded
    /\ project # None => project[1].is = "project"
    /\ tab = "overview" =>
         (ProjectDetail_panel(tab, project) = "project" <=> project # None)
    /\ tab # "overview" => ProjectDetail_panel(tab, project) = tab

\* the project a stored body is about does not match the current slug
StaleProject ==
  pdMounted /\ project # None /\ project[1].slug # slug

\* C11: a slug change leaves the earlier GET in flight beside the new one and
\* keeps the stored project; every answer that reaches the mounted instance is
\* stored, whatever the slug it answers; so when the earlier slug's answer comes
\* last the page shows the earlier slug's project under the later slug, and that
\* state stays until the slug changes again or the page is left.
C11_UnguardedOverlap ==
  [][ /\ (pdMounted /\ pdMounted' /\ slug' # slug) =>
           /\ pdFetches \subseteq pdFetches'
           /\ Cardinality(pdFetches') = Cardinality(pdFetches) + 1
           /\ \E r \in pdFetches' \ pdFetches : r.slug = slug' /\ r.gen = pdGen
           /\ project' = project
      /\ pdDone' # pdDone =>
           /\ Cardinality(pdFetches') = Cardinality(pdFetches) - 1
           /\ pdFetches \ pdFetches' = { [id |-> pdDone'.id, gen |-> pdDone'.gen,
                                          slug |-> pdDone'.slug] }
           /\ (pdMounted /\ pdDone'.gen = pdGen /\ pdDone'.kind = "json") =>
                /\ project' # None
                /\ project'[1].slug = pdDone'.slug
      /\ (StaleProject /\ pdFetches = {} /\ pdMounted' /\ slug' = slug) =>
           /\ project' = project
           /\ StaleProject' ]_vars

C11_Witness ==
  /\ pdMounted
  /\ pdGets = 2
  /\ slug = "beta"
  /\ pdSucceeded = {"alpha", "beta"}
  /\ pdDone.slug = "alpha"
  /\ project = Some([is |-> "project", slug |-> "alpha"])
  /\ pdFetches = {}
  /\ StaleProject

====
